---- MODULE Spec2Model ----
(***************************************************************************)
(* Model of the JSON platform loader (src/json_platform_loader.cpp).       *)
(*                                                                         *)
(* load_platform walks a configuration document and drives the simulation  *)
(* engine: it creates zones, hosts, disks, links, routes, storage devices  *)
(* and filesystems, and records names in three registries (zone_map,       *)
(* link_map, storage_map).  The engine side is modelled by the objects the *)
(* loader asks it to create (zones, hosts, links, storages, filesystems)   *)
(* and by the log of the calls made on it.  Handles are indices into the   *)
(* object sequences; NullPtr is the null handle.                           *)
(*                                                                         *)
(* Text that the code concatenates, searches or rewrites (names, mount     *)
(* points) is a sequence of one-character strings; text that is only       *)
(* compared with literals (routing, storage type) is a TLA+ string.        *)
(***************************************************************************)
EXTENDS Integers, Sequences, FiniteSets, TLC

(***************************************************************************)
(* Bounds of the explored documents.                                       *)
(***************************************************************************)
MaxCount == 2
MaxDisks == 2
MaxFacilities == 2
MaxMountLen == 24

(***************************************************************************)
(* Program constants.                                                      *)
(***************************************************************************)
NullPtr == 0
PlaceholderLen == 10
Npos == 0 - 1

(***************************************************************************)
(* Text helpers.                                                           *)
(***************************************************************************)
Placeholder == <<"{", "h", "o", "s", "t", "n", "a", "m", "e", "}">>

SufServer == <<"_", "s", "e", "r", "v", "e", "r">>
SufStorage == <<"_", "s", "t", "o", "r", "a", "g", "e">>
SufDisk == <<"_", "d", "i", "s", "k">>
SufBackbone == <<"_", "b", "a", "c", "k", "b", "o", "n", "e">>
SufRouter == <<"_", "r", "o", "u", "t", "e", "r">>
SufLinkUP == <<"_", "L", "i", "n", "k", "U", "P">>
SufLinkDOWN == <<"_", "L", "i", "n", "k", "D", "O", "W", "N">>
SufLoopback == <<"_", "l", "o", "o", "p", "b", "a", "c", "k">>
Underscore == <<"_">>

Digits == <<"0", "1", "2", "3", "4", "5", "6", "7", "8", "9">>

\* std::to_string(int) for the non-negative indices the loops produce.
RECURSIVE to_string(_)
to_string(i) ==
  IF i < 10 THEN <<Digits[i + 1]>>
  ELSE to_string(i \div 10) \o <<Digits[(i % 10) + 1]>>

\* TRUE iff pat occurs in s at 0-based offset pos.
MatchAt(s, pat, pos) ==
  /\ pos + Len(pat) <= Len(s)
  /\ \A k \in 1..Len(pat) : s[pos + k] = pat[k]

\* std::string::find: 0-based offset of the first occurrence, Npos if none.
Find(s, pat) ==
  LET hits == {p \in 0..Len(s) : MatchAt(s, pat, p)}
  IN IF hits = {} THEN Npos
     ELSE CHOOSE p \in hits : \A q \in hits : p <= q

\* std::string::replace(pos, n, str): the n characters from offset pos
\* (fewer when the text ends before) are replaced by str.
Replace(s, pos, n, str) ==
  LET m == IF pos + n <= Len(s) THEN n ELSE Len(s) - pos
  IN SubSeq(s, 1, pos) \o str \o SubSeq(s, pos + m + 1, Len(s))

\* hostname = prefix + std::to_string(i) + suffix
Hostname(prefix, i, suffix) == prefix \o to_string(i) \o suffix

\* std::map::operator[] used as a lookup: an absent key is inserted with a
\* value-initialised (null) mapped value.
MapIndex(m, k) == IF k \in DOMAIN m THEN m ELSE m @@ (k :> NullPtr)

\* std::map::operator[] used as an assignment target.
MapAssign(m, k, v) == [x \in (DOMAIN m) \cup {k} |-> IF x = k THEN v ELSE m[x]]

EmptyMap == [x \in {} |-> NullPtr]

(***************************************************************************)
(* The explored configuration documents.                                   *)
(***************************************************************************)
NameDc == <<"d", "c">>
NameS0 == <<"s", "0">>
NameC == <<"c">>
NameCx == <<"c", "x">>
NameL0 == <<"l", "0">>
NameL1 == <<"l", "1">>
NameLx == <<"l", "x">>
NameSsd == <<"s", "s", "d">>
NameFs == <<"f", "s">>
PrefixN == <<"n">>
PrefixM == <<"m">>
SuffixNone == <<>>
SuffixBrace == <<"{", "h", "o", "s", "t">>
Slash == <<"/">>

TemplateScratch == Slash \o Placeholder \o Slash
TemplateTwice == Placeholder \o Slash \o Placeholder
TemplateTail == Placeholder \o <<"n", "a", "m", "e", "}">>
TemplateLiteral == <<"/", "p", "f", "s", "/">>

NoStorageCfg == [name |-> <<>>, type |-> ""]

StorageSystemCfg(type, disks) ==
  [name |-> NameS0, type |-> type, disk_count |-> disks]

ClusterCfg(k, prefix, suffix, count, stype) ==
  [name |-> NameC \o to_string(k), prefix |-> prefix, suffix |-> suffix,
   count |-> count,
   has_storage |-> stype # "none",
   storage |-> IF stype = "none" THEN NoStorageCfg
               ELSE [name |-> NameSsd, type |-> stype]]

LinkCfg(name) == [name |-> name]

RouteCfg(src, dst, links) == [src |-> src, dst |-> dst, links |-> links]

\* The route sections explored: well-formed ones, and ones naming a zone
\* or a link that no earlier section declared ("no_links": the routes name
\* links of a links section that the facility does not have).
RouteVariants ==
  {"absent", "good", "two_links", "bad_src", "bad_dst", "bad_link", "no_links"}

RoutesOf(v) ==
  CASE v \in {"good", "no_links"} -> <<RouteCfg(NameS0, NameC \o to_string(0), <<NameL0>>)>>
    [] v = "two_links" ->
         <<RouteCfg(NameC \o to_string(0), NameS0, <<NameL1, NameL0>>),
           RouteCfg(NameS0, NameC \o to_string(0), <<NameL0>>)>>
    [] v = "bad_src" -> <<RouteCfg(NameCx, NameS0, <<NameL0>>)>>
    [] v = "bad_dst" -> <<RouteCfg(NameS0, NameCx, <<NameL0>>)>>
    [] v = "bad_link" -> <<RouteCfg(NameS0, NameC \o to_string(0), <<NameL0, NameLx>>)>>
    [] OTHER -> <<>>

LinksOf(v) ==
  IF v = "no_links" THEN <<>> ELSE <<LinkCfg(NameL0), LinkCfg(NameL1)>>

\* The filesystem entry of variant v: "single" names the storage system,
\* "single_and_cluster" carries both keys, "cluster" names the cluster of the
\* first facility, "cluster_far" the cluster of the second one,
\* "cluster_unknown" a name no zone has, "cluster_is_storage" the name of
\* the storage-system zone, "neither" carries no key.
FsCfg(v, tmpl) ==
  [name |-> NameFs, mount_point |-> tmpl,
   has_storage_system |-> v \in {"single", "single_and_cluster"},
   storage_system |-> IF v \in {"single", "single_and_cluster"} THEN NameS0 ELSE <<>>,
   has_cluster |-> v \in {"single_and_cluster", "cluster", "cluster_far",
                          "cluster_unknown", "cluster_is_storage"},
   cluster |-> CASE v \in {"single_and_cluster", "cluster"} -> NameC \o to_string(0)
                 [] v = "cluster_far" -> NameC \o to_string(1)
                 [] v = "cluster_unknown" -> NameCx
                 [] v = "cluster_is_storage" -> NameS0
                 [] OTHER -> <<>>]

\* The first facility of a document, built from the parameters p.
FirstFacility(p) ==
  [name |-> NameDc \o to_string(0),
   has_routing |-> p.routing # "absent",
   routing |-> IF p.routing = "absent" THEN "" ELSE p.routing,
   has_storage_systems |-> p.stype # "absent",
   storage_systems |-> IF p.stype = "absent" THEN <<>>
                       ELSE <<StorageSystemCfg(p.stype, p.disks)>>,
   has_clusters |-> p.cluster # "absent",
   clusters |-> IF p.cluster = "absent" THEN <<>>
                ELSE <<ClusterCfg(0, p.prefix, p.suffix, p.count, p.cluster)>>,
   has_links |-> p.routes \notin {"absent", "no_links"},
   links |-> IF p.routes = "absent" THEN <<>> ELSE LinksOf(p.routes),
   has_routes |-> p.routes # "absent",
   routes |-> RoutesOf(p.routes)]

\* The k-th facility (k >= 1, 0-based): one cluster of one node with a
\* OneDisk node storage, routing floyd, no other section.
NextFacility(k) ==
  [name |-> NameDc \o to_string(k),
   has_routing |-> TRUE,
   routing |-> "floyd",
   has_storage_systems |-> FALSE,
   storage_systems |-> <<>>,
   has_clusters |-> TRUE,
   clusters |-> <<ClusterCfg(k, PrefixM \o to_string(k) \o <<"-">>, SuffixNone, 1, "OneDisk")>>,
   has_links |-> FALSE,
   links |-> <<>>,
   has_routes |-> FALSE,
   routes |-> <<>>]

Doc(p) ==
  [facilities |-> [k \in 1..p.nfac |-> IF k = 1 THEN FirstFacility(p)
                                       ELSE NextFacility(k - 1)],
   has_filesystems |-> p.fs # "absent",
   filesystems |-> IF p.fs = "absent" THEN <<>> ELSE <<FsCfg(p.fs, p.tmpl)>>]

\* Documents that vary the routing declaration and the route section.
ParamsRouting ==
  [nfac : 1..MaxFacilities,
   routing : {"full", "floyd", "bogus", "absent"},
   stype : {"JBOD"}, disks : {MaxDisks},
   cluster : {"OneDisk"}, prefix : {PrefixN}, suffix : {SuffixNone}, count : {1},
   routes : RouteVariants,
   fs : {"single"}, tmpl : {TemplateLiteral}]

\* Documents that vary the storage system and the single-storage filesystem.
ParamsStorage ==
  [nfac : {1},
   routing : {"full"},
   stype : {"absent", "JBOD", "OneDisk", "Tape"}, disks : 0..MaxDisks,
   cluster : {"absent", "JBOD"}, prefix : {PrefixN}, suffix : {SuffixNone}, count : {1},
   routes : {"absent"},
   fs : {"absent", "single", "single_and_cluster", "neither"},
   tmpl : {TemplateLiteral, TemplateScratch}]

\* Documents that vary the cluster and the cluster-mode filesystem.
ParamsCluster ==
  [nfac : 1..MaxFacilities,
   routing : {"floyd"},
   stype : {"OneDisk"}, disks : {1},
   cluster : {"none", "OneDisk", "JBOD", "Tape"},
   prefix : {PrefixN, Placeholder}, suffix : {SuffixNone, SuffixBrace},
   count : 0..MaxCount,
   routes : {"good"},
   fs : {"cluster", "cluster_far", "cluster_unknown", "cluster_is_storage"},
   tmpl : {TemplateScratch, TemplateTwice, TemplateTail, TemplateLiteral}]

Params == ParamsRouting \cup ParamsStorage \cup ParamsCluster

\* Documents whose zone, host, disk and link names are pairwise distinct but
\* in which two storage names coincide: the storage system is named
\* "n0_x", so that its device is "n0_x_storage", and the node storage
\* template of the cluster is named "x_storage", so that the device of node
\* "n0" is "n0_x_storage" as well.
NameX == <<"x">>
NameCollide == Hostname(PrefixN, 0, SuffixNone) \o Underscore \o NameX

CollideFacility(stype, ctype) ==
  [name |-> NameDc \o to_string(0),
   has_routing |-> TRUE,
   routing |-> "full",
   has_storage_systems |-> TRUE,
   storage_systems |-> <<[StorageSystemCfg(stype, 1) EXCEPT !.name = NameCollide]>>,
   has_clusters |-> TRUE,
   clusters |-> <<[ClusterCfg(0, PrefixN, SuffixNone, 1, ctype) EXCEPT
                     !.storage.name = NameX \o SufStorage]>>,
   has_links |-> FALSE,
   links |-> <<>>,
   has_routes |-> FALSE,
   routes |-> <<>>]

DocsCollide ==
  {[facilities |-> <<CollideFacility(stype, ctype)>>,
    has_filesystems |-> mounted,
    filesystems |-> IF mounted
                    THEN <<[FsCfg("single", TemplateLiteral) EXCEPT
                              !.storage_system = NameCollide]>>
                    ELSE <<>>] :
     stype \in {"JBOD", "OneDisk"}, ctype \in {"OneDisk", "JBOD"},
     mounted \in BOOLEAN}

Documents == {Doc(p) : p \in Params} \cup DocsCollide

(***************************************************************************)
(* State.                                                                  *)
(***************************************************************************)
VARIABLES
  config,       \* the parsed configuration document
  pc,           \* position of load_platform
  fi,           \* index of the facility being processed
  si,           \* index of the next storage system of the facility
  ci,           \* index of the next cluster of the facility
  ni,           \* loop variable i of the node loops
  fsi,          \* index of the next filesystem entry
  datacenter,   \* handle of the current facility zone
  cluster,      \* handle of the current cluster zone
  backbone,     \* handle of the current cluster's backbone link
  loc,          \* locals of create_filesystems
  zones,        \* engine: the zones created, by handle
  hosts,        \* engine: the hosts created, by handle
  links,        \* engine: the links created, by handle
  storages,     \* fsmod: the storage devices created, by handle
  filesystems,  \* fsmod: the filesystems created, by handle
  zone_map,     \* registry: zone name -> zone handle
  link_map,     \* registry: link name -> link handle
  storage_map,  \* registry: storage name -> storage handle
  log,          \* the calls made so far, in order
  failed        \* "none", or the failure that aborted the compile

vars == <<config, pc, fi, si, ci, ni, fsi, datacenter, cluster, backbone, loc,
          zones, hosts, links, storages, filesystems,
          zone_map, link_map, storage_map, log, failed>>

NoLocals ==
  [prefix |-> <<>>, suffix |-> <<>>, storage_base_name |-> <<>>, count |-> 0,
   hostname |-> <<>>, storage_name |-> <<>>, mount_point |-> <<>>]

\* A call made by builder `by` on zone `zone` while facility `fac` is current.
Call(op, by, zone) == [op |-> op, by |-> by, zone |-> zone, fac |-> fi]

NewZone(name, kind, parent) ==
  [name |-> name, kind |-> kind, parent |-> parent, sealed |-> FALSE,
   hosts |-> <<>>, links |-> <<>>, routes |-> <<>>, gateway |-> <<>>]

NewHost(name, zone, disks) == [name |-> name, zone |-> zone, disks |-> disks]

NewLink(name, zone) == [name |-> name, zone |-> zone]

NewStorage(name, type, disks) == [name |-> name, type |-> type, disks |-> disks]

NewRoute(src, dst, route_links, symmetrical) ==
  [src |-> src, dst |-> dst, links |-> route_links, symmetrical |-> symmetrical]

Init ==
  /\ config \in Documents
  /\ pc = "facility"
  /\ fi = 1 /\ si = 1 /\ ci = 1 /\ ni = 0 /\ fsi = 1
  /\ datacenter = NullPtr /\ cluster = NullPtr /\ backbone = NullPtr
  /\ loc = NoLocals
  /\ zones = <<>> /\ hosts = <<>> /\ links = <<>>
  /\ storages = <<>> /\ filesystems = <<>>
  /\ zone_map = EmptyMap /\ link_map = EmptyMap /\ storage_map = EmptyMap
  /\ log = <<>>
  /\ failed = "none"

(***************************************************************************)
(* load_platform: the facility loop.                                       *)
(***************************************************************************)

\* The outcomes of reading dc_config["routing"].  Reading a key that a const
\* document does not hold is undefined: the read aborts or throws, or it
\* yields whatever text the stray reference happens to hold.
ReadRouting(dc) ==
  IF dc.has_routing THEN {dc.routing}
  ELSE {"<failure>", "full", "floyd", "bogus"}

\* The zone kind chosen for the text dc_routing (lines 284-290).
FacilityKind(dc_routing) ==
  IF dc_routing = "full" THEN "full"
  ELSE IF dc_routing = "floyd" THEN "floyd"
  ELSE "full"

BeginFacility ==
  /\ pc = "facility" /\ fi <= Len(config.facilities)
  /\ \E dc_routing \in ReadRouting(config.facilities[fi]) :
       /\ dc_routing # "<failure>"
       /\ LET dc_name == config.facilities[fi].name
              zone == Len(zones) + 1
          IN /\ zones' = Append(zones, NewZone(dc_name, FacilityKind(dc_routing), NullPtr))
             /\ zone_map' = MapAssign(zone_map, dc_name, zone)
             /\ datacenter' = zone
             /\ log' = Append(log, Call("add_netzone", "load_platform", zone))
  /\ pc' = "storage" /\ si' = 1
  /\ UNCHANGED <<config, fi, ci, ni, fsi, cluster, backbone, loc, hosts, links,
                 storages, filesystems, link_map, storage_map, failed>>

MissingRouting ==
  /\ pc = "facility" /\ fi <= Len(config.facilities)
  /\ "<failure>" \in ReadRouting(config.facilities[fi])
  /\ pc' = "failed" /\ failed' = "MissingField"
  /\ UNCHANGED <<config, fi, si, ci, ni, fsi, datacenter, cluster, backbone, loc,
                 zones, hosts, links, storages, filesystems,
                 zone_map, link_map, storage_map, log>>

(***************************************************************************)
(* create_storage_system_zone                                              *)
(***************************************************************************)

\* A key scheme in which the storage type takes part.
StorageSystemKeyTyped(name, storage_type) ==
  IF storage_type = "JBOD" THEN name \o <<"_", "j", "b", "o", "d">>
  ELSE name \o SufStorage

\* The storage registry key of the device of a storage system (line 61):
\* the storage type, read at line 69, takes no part in it.
StorageSystemKey(name, storage_type) == name \o SufStorage

\* A builder that gives every type other than JBOD the one disk of a OneDisk.
StorageSystemDisksAnyType(name, storage_type, disk_count) ==
  LET disk_name_base == name \o SufDisk
  IN IF storage_type = "JBOD"
     THEN [i \in 1..disk_count |->
             IF disk_count = 1 THEN disk_name_base
             ELSE disk_name_base \o to_string(i - 1)]
     ELSE <<disk_name_base>>

\* The disks the builder attaches to the server host (lines 74-84).
StorageSystemDisks(name, storage_type, disk_count) ==
  LET disk_name_base == name \o SufDisk
  IN IF storage_type = "JBOD"
     THEN [i \in 1..disk_count |->
             IF disk_count = 1 THEN disk_name_base
             ELSE disk_name_base \o to_string(i - 1)]
     ELSE IF storage_type = "OneDisk" THEN <<disk_name_base>>
     ELSE <<>>

\* The calls of one create_storage_system_zone, in program order.
StorageSystemCalls(zone, ndisks, creates) ==
  LET by == "create_storage_system_zone"
  IN <<Call("enter", by, NullPtr), Call("add_netzone", by, zone),
       Call("add_host", by, zone)>>
     \o [i \in 1..ndisks |-> Call("add_disk", by, zone)]
     \o (IF creates THEN <<Call("create_storage", by, zone)>> ELSE <<>>)
     \o <<Call("seal", by, zone)>>

CreateStorageSystemZone ==
  /\ pc = "storage"
  /\ config.facilities[fi].has_storage_systems
  /\ si <= Len(config.facilities[fi].storage_systems)
  /\ LET storage_config == config.facilities[fi].storage_systems[si]
         name == storage_config.name
         storage_type == storage_config.type
         server_name == name \o SufServer
         storage_name == StorageSystemKey(name, storage_type)
         zone == Len(zones) + 1
         server == Len(hosts) + 1
         disks == StorageSystemDisks(name, storage_type, storage_config.disk_count)
         creates == storage_type \in {"JBOD", "OneDisk"}
     IN /\ zones' = Append(zones, [NewZone(name, "empty", datacenter) EXCEPT
                                     !.hosts = <<server>>, !.sealed = TRUE])
        /\ zone_map' = MapAssign(zone_map, name, zone)
        /\ hosts' = Append(hosts, NewHost(server_name, zone, disks))
        /\ storages' = IF creates
                       THEN Append(storages, NewStorage(storage_name, storage_type, disks))
                       ELSE storages
        /\ storage_map' = IF creates
                          THEN MapAssign(storage_map, storage_name, Len(storages) + 1)
                          ELSE storage_map
        /\ log' = log \o StorageSystemCalls(zone, Len(disks), creates)
  /\ si' = si + 1
  /\ UNCHANGED <<config, pc, fi, ci, ni, fsi, datacenter, cluster, backbone, loc,
                 links, filesystems, link_map, failed>>

StorageSystemsDone ==
  /\ pc = "storage"
  /\ \/ ~config.facilities[fi].has_storage_systems
     \/ si > Len(config.facilities[fi].storage_systems)
  /\ pc' = "clusters" /\ ci' = 1
  /\ UNCHANGED <<config, fi, si, ni, fsi, datacenter, cluster, backbone, loc,
                 zones, hosts, links, storages, filesystems,
                 zone_map, link_map, storage_map, log, failed>>

(***************************************************************************)
(* create_cluster_zone                                                     *)
(***************************************************************************)

\* Lines 91-104: the star zone, its registration and the backbone link.
ClusterBegin ==
  /\ pc = "clusters"
  /\ config.facilities[fi].has_clusters
  /\ ci <= Len(config.facilities[fi].clusters)
  /\ LET cluster_config == config.facilities[fi].clusters[ci]
         name == cluster_config.name
         zone == Len(zones) + 1
         link == Len(links) + 1
         by == "create_cluster_zone"
     IN /\ zones' = Append(zones, [NewZone(name, "star", datacenter) EXCEPT
                                     !.links = <<link>>])
        /\ zone_map' = MapAssign(zone_map, name, zone)
        /\ links' = Append(links, NewLink(name \o SufBackbone, zone))
        /\ cluster' = zone
        /\ backbone' = link
        /\ log' = log \o <<Call("enter", by, NullPtr), Call("add_netzone", by, zone),
                           Call("add_link", by, zone)>>
  /\ pc' = "node" /\ ni' = 0
  /\ UNCHANGED <<config, fi, si, ci, fsi, datacenter, loc, hosts, storages,
                 filesystems, link_map, storage_map, failed>>

NodeLoopRunsInclusive(i, count) == i <= count

\* The node loop runs while i < count (line 136).
NodeLoopRuns(i, count) == i < count

\* Lines 154-158: the names of the three links of one node.
NodeLinkNames(hostname) ==
  <<hostname \o SufLinkUP, hostname \o SufLinkDOWN, hostname \o SufLoopback>>

NodeRoutesDownFirst(host, link_up, link_down, loopback, bb) ==
  <<NewRoute(host, NullPtr, <<link_up, bb>>, FALSE),
    NewRoute(NullPtr, host, <<link_down, bb>>, FALSE),
    NewRoute(host, host, <<loopback>>, TRUE)>>

\* Lines 161-163: the three routes of one node.
NodeRoutes(host, link_up, link_down, loopback, bb) ==
  <<NewRoute(host, NullPtr, <<link_up, bb>>, FALSE),
    NewRoute(NullPtr, host, <<bb, link_down>>, FALSE),
    NewRoute(host, host, <<loopback>>, TRUE)>>

\* Lines 141-151: the storage device of one node, if one is created.
NodeCreatesStorage(node_cfg) ==
  node_cfg.has_storage /\ node_cfg.storage.type \in {"OneDisk", "JBOD"}

\* The calls of one iteration of the node loop, in program order.
NodeCalls(zone, has_storage, creates) ==
  LET by == "create_cluster_zone"
  IN <<Call("add_host", by, zone)>>
     \o (IF has_storage THEN <<Call("add_disk", by, zone)>> ELSE <<>>)
     \o (IF creates THEN <<Call("create_storage", by, zone)>> ELSE <<>>)
     \o <<Call("add_link", by, zone), Call("add_link", by, zone),
          Call("add_link", by, zone), Call("add_route", by, zone),
          Call("add_route", by, zone), Call("add_route", by, zone)>>

\* One iteration of the node loop (lines 136-164).
ClusterNode ==
  /\ pc = "node"
  /\ LET cluster_config == config.facilities[fi].clusters[ci]
         hostname == Hostname(cluster_config.prefix, ni, cluster_config.suffix)
         host == Len(hosts) + 1
         storage_name == hostname \o Underscore \o cluster_config.storage.name
         disk_name == storage_name \o SufDisk
         creates == NodeCreatesStorage(cluster_config)
         names == NodeLinkNames(hostname)
         link_up == Len(links) + 1
         link_down == Len(links) + 2
         loopback == Len(links) + 3
     IN /\ NodeLoopRuns(ni, cluster_config.count)
        /\ hosts' = Append(hosts, NewHost(hostname, cluster,
                             IF cluster_config.has_storage THEN <<disk_name>> ELSE <<>>))
        /\ storages' = IF creates
                       THEN Append(storages, NewStorage(storage_name,
                                     cluster_config.storage.type, <<disk_name>>))
                       ELSE storages
        /\ storage_map' = IF creates
                          THEN MapAssign(storage_map, storage_name, Len(storages) + 1)
                          ELSE storage_map
        /\ links' = links \o [k \in 1..3 |-> NewLink(names[k], cluster)]
        /\ zones' = [zones EXCEPT
                       ![cluster].hosts = Append(@, host),
                       ![cluster].links = @ \o <<link_up, link_down, loopback>>,
                       ![cluster].routes =
                          @ \o NodeRoutes(host, link_up, link_down, loopback, backbone)]
        /\ log' = log \o NodeCalls(cluster, cluster_config.has_storage, creates)
  /\ ni' = ni + 1
  /\ UNCHANGED <<config, pc, fi, si, ci, fsi, datacenter, cluster, backbone, loc,
                 filesystems, zone_map, link_map, failed>>

FinishClusterUnsealed(z, router_name) == [z EXCEPT !.gateway = router_name]

\* Lines 166-169: the zone once the router is its gateway and it is sealed.
FinishCluster(z, router_name) ==
  [z EXCEPT !.gateway = router_name, !.sealed = TRUE]

ClusterEnd ==
  /\ pc = "node"
  /\ LET cluster_config == config.facilities[fi].clusters[ci]
         router_name == cluster_config.name \o SufRouter
         by == "create_cluster_zone"
     IN /\ ~NodeLoopRuns(ni, cluster_config.count)
        /\ zones' = [zones EXCEPT ![cluster] = FinishCluster(@, router_name)]
        /\ log' = log \o <<Call("add_router", by, cluster),
                           Call("set_gateway", by, cluster)>>
                      \o [k \in 1..(IF FinishCluster(zones[cluster], router_name).sealed
                                     THEN 1 ELSE 0) |-> Call("seal", by, cluster)]
  /\ pc' = "clusters" /\ ci' = ci + 1
  /\ UNCHANGED <<config, fi, si, ni, fsi, datacenter, cluster, backbone, loc,
                 hosts, links, storages, filesystems,
                 zone_map, link_map, storage_map, failed>>

ClustersDone ==
  /\ pc = "clusters"
  /\ \/ ~config.facilities[fi].has_clusters
     \/ ci > Len(config.facilities[fi].clusters)
  /\ pc' = "links"
  /\ UNCHANGED <<config, fi, si, ci, ni, fsi, datacenter, cluster, backbone, loc,
                 zones, hosts, links, storages, filesystems,
                 zone_map, link_map, storage_map, log, failed>>

(***************************************************************************)
(* create_inter_zone_links                                                 *)
(***************************************************************************)

\* link_map after the links of links_config[1..n] are registered, the first
\* of them receiving handle base + 1.
RECURSIVE RegisterLinks(_, _, _, _)
RegisterLinks(m, links_config, n, base) ==
  IF n = 0 THEN m
  ELSE MapAssign(RegisterLinks(m, links_config, n - 1, base),
                 links_config[n].name, base + n)

CreateInterZoneLinks ==
  /\ pc = "links"
  /\ config.facilities[fi].has_links
  /\ LET links_config == config.facilities[fi].links
         n == Len(links_config)
         by == "create_inter_zone_links"
     IN /\ links' = links \o [k \in 1..n |-> NewLink(links_config[k].name, datacenter)]
        /\ zones' = [zones EXCEPT ![datacenter].links =
                       @ \o [k \in 1..n |-> Len(links) + k]]
        /\ link_map' = RegisterLinks(link_map, links_config, n, Len(links))
        /\ log' = log \o <<Call("enter", by, NullPtr)>>
                      \o [k \in 1..n |-> Call("add_link", by, datacenter)]
  /\ pc' = "routes"
  /\ UNCHANGED <<config, fi, si, ci, ni, fsi, datacenter, cluster, backbone, loc,
                 hosts, storages, filesystems, zone_map, storage_map, failed>>

LinksAbsent ==
  /\ pc = "links"
  /\ ~config.facilities[fi].has_links
  /\ pc' = "routes"
  /\ UNCHANGED <<config, fi, si, ci, ni, fsi, datacenter, cluster, backbone, loc,
                 zones, hosts, links, storages, filesystems,
                 zone_map, link_map, storage_map, log, failed>>

(***************************************************************************)
(* create_routes                                                           *)
(***************************************************************************)

\* link_map after the lookups link_map[names[1]], ..., link_map[names[n]].
RECURSIVE LookupLinks(_, _, _)
LookupLinks(m, names, n) ==
  IF n = 0 THEN m ELSE MapIndex(LookupLinks(m, names, n - 1), names[n])

\* The registries after routes_config[1..n] are processed, and the routes
\* handed to the engine on the way (lines 185-198).  The handles are passed
\* on as the lookups return them.
RECURSIVE AfterRoutes(_, _, _, _)
AfterRoutes(zm, lm, routes_config, n) ==
  IF n = 0 THEN [zone_map |-> zm, link_map |-> lm, routes |-> <<>>]
  ELSE LET prev == AfterRoutes(zm, lm, routes_config, n - 1)
           route_cfg == routes_config[n]
           zm1 == MapIndex(prev.zone_map, route_cfg.src)
           src_zone == zm1[route_cfg.src]
           zm2 == MapIndex(zm1, route_cfg.dst)
           dst_zone == zm2[route_cfg.dst]
           lm2 == LookupLinks(prev.link_map, route_cfg.links, Len(route_cfg.links))
           route_links == [k \in 1..Len(route_cfg.links) |-> lm2[route_cfg.links[k]]]
       IN [zone_map |-> zm2, link_map |-> lm2,
           routes |-> Append(prev.routes,
                             NewRoute(src_zone, dst_zone, route_links, TRUE))]

CreateRoutes ==
  /\ pc = "routes"
  /\ config.facilities[fi].has_routes
  /\ LET routes_config == config.facilities[fi].routes
         after == AfterRoutes(zone_map, link_map, routes_config, Len(routes_config))
         by == "create_routes"
     IN /\ zone_map' = after.zone_map
        /\ link_map' = after.link_map
        /\ zones' = [zones EXCEPT ![datacenter].routes = @ \o after.routes]
        /\ log' = log \o <<Call("enter", by, NullPtr)>>
                      \o [k \in 1..Len(after.routes) |-> Call("add_route", by, datacenter)]
  /\ pc' = "seal"
  /\ UNCHANGED <<config, fi, si, ci, ni, fsi, datacenter, cluster, backbone, loc,
                 hosts, links, storages, filesystems, storage_map, failed>>

RoutesAbsent ==
  /\ pc = "routes"
  /\ ~config.facilities[fi].has_routes
  /\ pc' = "seal"
  /\ UNCHANGED <<config, fi, si, ci, ni, fsi, datacenter, cluster, backbone, loc,
                 zones, hosts, links, storages, filesystems,
                 zone_map, link_map, storage_map, log, failed>>

\* Line 317, and the step to the next facility.
SealFacility ==
  /\ pc = "seal"
  /\ zones' = [zones EXCEPT ![datacenter].sealed = TRUE]
  /\ log' = Append(log, Call("seal", "load_platform", datacenter))
  /\ pc' = "facility" /\ fi' = fi + 1
  /\ UNCHANGED <<config, si, ci, ni, fsi, datacenter, cluster, backbone, loc,
                 hosts, links, storages, filesystems,
                 zone_map, link_map, storage_map, failed>>

(***************************************************************************)
(* create_filesystems                                                      *)
(***************************************************************************)

NewFileSystem(name) == [name |-> name, partitions |-> <<>>, registered |-> <<>>]

NewPartition(mount_point, storage) == [mount_point |-> mount_point, storage |-> storage]

EnterFilesystemsInLoop ==
  /\ pc = "facility" /\ fi > 1
  /\ config.has_filesystems
  /\ pc' = "filesystems" /\ fsi' = 1
  /\ log' = Append(log, Call("enter", "create_filesystems", NullPtr))
  /\ UNCHANGED <<config, fi, si, ci, ni, datacenter, cluster, backbone, loc,
                 zones, hosts, links, storages, filesystems,
                 zone_map, link_map, storage_map, failed>>

\* Lines 321-322: the filesystem pass starts once the facility loop is over.
EnterFilesystems ==
  /\ pc = "facility" /\ fi > Len(config.facilities)
  /\ config.has_filesystems
  /\ pc' = "filesystems" /\ fsi' = 1
  /\ log' = Append(log, Call("enter", "create_filesystems", NullPtr))
  /\ UNCHANGED <<config, fi, si, ci, ni, datacenter, cluster, backbone, loc,
                 zones, hosts, links, storages, filesystems,
                 zone_map, link_map, storage_map, failed>>

FilesystemsAbsent ==
  /\ pc = "facility" /\ fi > Len(config.facilities)
  /\ ~config.has_filesystems
  /\ pc' = "done"
  /\ UNCHANGED <<config, fi, si, ci, ni, fsi, datacenter, cluster, backbone, loc,
                 zones, hosts, links, storages, filesystems,
                 zone_map, link_map, storage_map, log, failed>>

FsModeClusterFirst(fs_cfg) ==
  IF fs_cfg.has_cluster THEN "cluster"
  ELSE IF fs_cfg.has_storage_system THEN "storage_system"
  ELSE "none"

\* Lines 211 and 220: the mount mode of a filesystem entry.
FsMode(fs_cfg) ==
  IF fs_cfg.has_storage_system THEN "storage_system"
  ELSE IF fs_cfg.has_cluster THEN "cluster"
  ELSE "none"

\* Lines 211-218: an entry with a storage_system key.
MountSingleStorage ==
  /\ pc = "filesystems" /\ fsi <= Len(config.filesystems)
  /\ LET fs_cfg == config.filesystems[fsi]
         storage_system_name == fs_cfg.storage_system
         storage_name == storage_system_name \o SufStorage
         zm == MapIndex(zone_map, storage_system_name)
         zone == zm[storage_system_name]
         sm == MapIndex(storage_map, storage_name)
         fs == Len(filesystems) + 1
         by == "create_filesystems"
     IN /\ FsMode(fs_cfg) = "storage_system"
        /\ zone_map' = zm
        /\ storage_map' = sm
        /\ filesystems' = Append(filesystems,
             [NewFileSystem(fs_cfg.name) EXCEPT
                !.partitions = <<NewPartition(fs_cfg.mount_point, sm[storage_name])>>,
                !.registered = <<zone>>])
        /\ log' = log \o <<Call("create_fs", by, NullPtr),
                           Call("mount_partition", by, NullPtr),
                           Call("register_file_system", by, zone)>>
  /\ fsi' = fsi + 1
  /\ UNCHANGED <<config, pc, fi, si, ci, ni, datacenter, cluster, backbone, loc,
                 zones, hosts, links, storages, link_map, failed>>

\* Index of the first cluster of `clusters` named cluster_name, 0 if none.
FirstNamed(clusters, cluster_name) ==
  LET hits == {k \in 1..Len(clusters) : clusters[k].name = cluster_name}
  IN IF hits = {} THEN 0 ELSE CHOOSE k \in hits : \A j \in hits : k <= j

\* Lines 225-242: the locals after the scan of facilities[1..n].  The break
\* leaves the cluster loop only: the scan goes on with the next facility.
RECURSIVE ScanFacilities(_, _, _)
ScanFacilities(facilities, n, cluster_name) ==
  IF n = 0 THEN NoLocals
  ELSE LET prev == ScanFacilities(facilities, n - 1, cluster_name)
           dc == facilities[n]
           k == IF dc.has_clusters THEN FirstNamed(dc.clusters, cluster_name) ELSE 0
       IN IF k = 0 THEN prev
          ELSE [prev EXCEPT
                  !.prefix = dc.clusters[k].prefix,
                  !.suffix = dc.clusters[k].suffix,
                  !.count = dc.clusters[k].count,
                  !.storage_base_name = IF dc.clusters[k].has_storage
                                        THEN dc.clusters[k].storage.name ELSE @]

\* Lines 220-242: an entry with a cluster key and no storage_system key.
LookupCluster ==
  /\ pc = "filesystems" /\ fsi <= Len(config.filesystems)
  /\ LET fs_cfg == config.filesystems[fsi]
     IN /\ FsMode(fs_cfg) = "cluster"
        /\ filesystems' = Append(filesystems, NewFileSystem(fs_cfg.name))
        /\ loc' = ScanFacilities(config.facilities, Len(config.facilities), fs_cfg.cluster)
  /\ log' = Append(log, Call("create_fs", "create_filesystems", NullPtr))
  /\ pc' = "mount" /\ ni' = 0
  /\ UNCHANGED <<config, fi, si, ci, fsi, datacenter, cluster, backbone,
                 zones, hosts, links, storages, zone_map, link_map, storage_map, failed>>

\* An entry with neither key: the filesystem is created and left alone.
NoMountMode ==
  /\ pc = "filesystems" /\ fsi <= Len(config.filesystems)
  /\ LET fs_cfg == config.filesystems[fsi]
     IN /\ FsMode(fs_cfg) = "none"
        /\ filesystems' = Append(filesystems, NewFileSystem(fs_cfg.name))
  /\ log' = Append(log, Call("create_fs", "create_filesystems", NullPtr))
  /\ fsi' = fsi + 1
  /\ UNCHANGED <<config, pc, fi, si, ci, ni, datacenter, cluster, backbone, loc,
                 zones, hosts, links, storages, zone_map, link_map, storage_map, failed>>

\* Lines 245-250: the start of one iteration of the partition loop.
MountBegin ==
  /\ pc = "mount"
  /\ ni < loc.count
  /\ LET hostname == Hostname(loc.prefix, ni, loc.suffix)
     IN loc' = [loc EXCEPT
                  !.hostname = hostname,
                  !.storage_name = hostname \o Underscore \o loc.storage_base_name,
                  !.mount_point = config.filesystems[fsi].mount_point]
  /\ pc' = "replace"
  /\ UNCHANGED <<config, fi, si, ci, ni, fsi, datacenter, cluster, backbone,
                 zones, hosts, links, storages, filesystems,
                 zone_map, link_map, storage_map, log, failed>>

\* Lines 252-254: one iteration of the substitution loop.  The search starts
\* over from the beginning of the text each time.
ReplaceStep ==
  /\ pc = "replace"
  /\ Find(loc.mount_point, Placeholder) # Npos
  /\ Len(loc.mount_point) <= MaxMountLen
  /\ loc' = [loc EXCEPT !.mount_point =
               Replace(@, Find(loc.mount_point, Placeholder), PlaceholderLen, loc.hostname)]
  /\ UNCHANGED <<config, pc, fi, si, ci, ni, fsi, datacenter, cluster, backbone,
                 zones, hosts, links, storages, filesystems,
                 zone_map, link_map, storage_map, log, failed>>

\* Lines 252-254 when the text has outgrown what a string can hold: replace
\* throws (std::length_error, or std::bad_alloc from the allocation), nothing
\* catches it and the exception leaves create_filesystems and load_platform.
\* MaxMountLen stands for that capacity.
ReplaceOverflow ==
  /\ pc = "replace"
  /\ Find(loc.mount_point, Placeholder) # Npos
  /\ Len(loc.mount_point) > MaxMountLen
  /\ pc' = "failed" /\ failed' = "bad_alloc"
  /\ UNCHANGED <<config, fi, si, ci, ni, fsi, datacenter, cluster, backbone, loc,
                 zones, hosts, links, storages, filesystems,
                 zone_map, link_map, storage_map, log>>

\* Line 256: the partition of the current node.
MountPartition ==
  /\ pc = "replace"
  /\ Find(loc.mount_point, Placeholder) = Npos
  /\ LET sm == MapIndex(storage_map, loc.storage_name)
         fs == Len(filesystems)
     IN /\ storage_map' = sm
        /\ filesystems' = [filesystems EXCEPT ![fs].partitions =
                             Append(@, NewPartition(loc.mount_point, sm[loc.storage_name]))]
  /\ log' = Append(log, Call("mount_partition", "create_filesystems", NullPtr))
  /\ pc' = "mount" /\ ni' = ni + 1
  /\ UNCHANGED <<config, fi, si, ci, fsi, datacenter, cluster, backbone, loc,
                 zones, hosts, links, storages, zone_map, link_map, failed>>

\* Lines 259-260: the registration that follows the partition loop.
RegisterClusterFs ==
  /\ pc = "mount"
  /\ ~(ni < loc.count)
  /\ LET cluster_name == config.filesystems[fsi].cluster
         zm == MapIndex(zone_map, cluster_name)
         zone == zm[cluster_name]
         fs == Len(filesystems)
     IN /\ zone_map' = zm
        /\ filesystems' = [filesystems EXCEPT ![fs].registered = Append(@, zone)]
        /\ log' = Append(log, Call("register_file_system", "create_filesystems", zone))
  /\ pc' = "filesystems" /\ fsi' = fsi + 1
  /\ UNCHANGED <<config, fi, si, ci, ni, datacenter, cluster, backbone, loc,
                 zones, hosts, links, storages, link_map, storage_map, failed>>

FilesystemsDone ==
  /\ pc = "filesystems" /\ fsi > Len(config.filesystems)
  /\ pc' = "done"
  /\ UNCHANGED <<config, fi, si, ci, ni, fsi, datacenter, cluster, backbone, loc,
                 zones, hosts, links, storages, filesystems,
                 zone_map, link_map, storage_map, log, failed>>

(***************************************************************************)
(* The compile pass.                                                       *)
(***************************************************************************)
Next ==
  \/ BeginFacility
  \/ MissingRouting
  \/ CreateStorageSystemZone
  \/ StorageSystemsDone
  \/ ClusterBegin
  \/ ClusterNode
  \/ ClusterEnd
  \/ ClustersDone
  \/ CreateInterZoneLinks
  \/ LinksAbsent
  \/ CreateRoutes
  \/ RoutesAbsent
  \/ SealFacility
  \/ EnterFilesystems
  \/ FilesystemsAbsent
  \/ MountSingleStorage
  \/ LookupCluster
  \/ NoMountMode
  \/ MountBegin
  \/ ReplaceStep
  \/ ReplaceOverflow
  \/ MountPartition
  \/ RegisterClusterFs
  \/ FilesystemsDone

Spec == Init /\ [][Next]_vars

(***************************************************************************)
(* Auxiliary definitions for the properties.                               *)
(***************************************************************************)
Zones == DOMAIN zones
ClusterZones == {z \in Zones : zones[z].kind = "star"}
FacilityZones == {z \in Zones : zones[z].parent = NullPtr}

\* Position in the document of the facility whose zone is z.
FacilityIndexOf(z) ==
  CHOOSE f \in 1..Len(config.facilities) : config.facilities[f].name = zones[z].name

\* The cluster specification a cluster zone was built from.
SpecOfCluster(z) ==
  LET dc == config.facilities[FacilityIndexOf(zones[z].parent)]
  IN dc.clusters[CHOOSE k \in 1..Len(dc.clusters) : dc.clusters[k].name = zones[z].name]

LinkNamesOf(route_links) == [k \in 1..Len(route_links) |-> links[route_links[k]].name]

HostsIn(z) == {h \in DOMAIN hosts : hosts[h].zone = z}
LinksIn(z) == {l \in DOMAIN links : links[l].zone = z}

Range(f) == {f[x] : x \in DOMAIN f}

(***************************************************************************)
(* C1.  A cluster specification with count = N puts into its zone exactly  *)
(* N hosts, named prefix + i + suffix for i = 0..N-1 in this order,        *)
(* exactly 3N + 1 links (uplink, downlink and loopback per host, plus the  *)
(* one backbone) and exactly 3N routes.                                    *)
(***************************************************************************)
C1_ClusterExpansionCounts ==
  \A z \in ClusterZones :
    zones[z].sealed =>
      LET spec == SpecOfCluster(z)
          N == spec.count
          hostname(i) == spec.prefix \o to_string(i) \o spec.suffix
      IN /\ Len(zones[z].hosts) = N
         /\ Cardinality(HostsIn(z)) = N
         /\ \A i \in 1..N : hosts[zones[z].hosts[i]].name = hostname(i - 1)
         /\ Len(zones[z].links) = 3 * N + 1
         /\ Cardinality(LinksIn(z)) = 3 * N + 1
         /\ {links[l].name : l \in LinksIn(z)} =
              {spec.name \o SufBackbone}
              \cup UNION {{hostname(i) \o SufLinkUP, hostname(i) \o SufLinkDOWN,
                           hostname(i) \o SufLoopback} : i \in 0..(N - 1)}
         /\ Len(zones[z].routes) = 3 * N

C1_Witness ==
  \E z \in ClusterZones :
    /\ zones[z].sealed
    /\ SpecOfCluster(z).count = MaxCount
    /\ Len(zones[z].hosts) = MaxCount
    /\ Len(zones[z].routes) = 3 * MaxCount

(***************************************************************************)
(* C2.  For every host h of a cluster zone the zone holds exactly one      *)
(* route from h to the gateway (null endpoint), with links                 *)
(* [h_LinkUP, <cluster>_backbone], exactly one route from the gateway to   *)
(* h, with links [<cluster>_backbone, h_LinkDOWN], and exactly one route   *)
(* from h to h, with links [h_loopback]; every link of a route of h is the *)
(* backbone or a link named after h, and belongs to the cluster zone.      *)
(***************************************************************************)
C2_ClusterRouteWiring ==
  \A z \in ClusterZones :
    \A i \in 1..Len(zones[z].hosts) :
      LET h == zones[z].hosts[i]
          hname == hosts[h].name
          bbname == zones[z].name \o SufBackbone
          routes == zones[z].routes
          between(a, b) == {k \in 1..Len(routes) : routes[k].src = a /\ routes[k].dst = b}
          ofhost == {k \in 1..Len(routes) : routes[k].src = h \/ routes[k].dst = h}
      IN /\ Cardinality(between(h, NullPtr)) = 1
         /\ \A k \in between(h, NullPtr) :
              LinkNamesOf(routes[k].links) = <<hname \o SufLinkUP, bbname>>
         /\ Cardinality(between(NullPtr, h)) = 1
         /\ \A k \in between(NullPtr, h) :
              LinkNamesOf(routes[k].links) = <<bbname, hname \o SufLinkDOWN>>
         /\ Cardinality(between(h, h)) = 1
         /\ \A k \in between(h, h) :
              LinkNamesOf(routes[k].links) = <<hname \o SufLoopback>>
         /\ Cardinality(ofhost) = 3
         /\ \A k \in ofhost : \A l \in Range(routes[k].links) :
              /\ links[l].zone = z
              /\ links[l].name \in {bbname, hname \o SufLinkUP, hname \o SufLinkDOWN,
                                    hname \o SufLoopback}
              /\ \A j \in 1..Len(zones[z].hosts) :
                   j # i => links[l].name \notin
                              {hosts[zones[z].hosts[j]].name \o SufLinkUP,
                               hosts[zones[z].hosts[j]].name \o SufLinkDOWN,
                               hosts[zones[z].hosts[j]].name \o SufLoopback}

C2_Witness ==
  \E z \in ClusterZones :
    /\ Len(zones[z].hosts) >= 2
    /\ Len(zones[z].routes) >= 6
    /\ zones[z].gateway # <<>>

(***************************************************************************)
(* C3.  Facilities are processed in document order; within a facility the  *)
(* builders run in the order storage systems, clusters, inter-zone links,  *)
(* routes, each exactly when its section is present, and then the facility *)
(* zone is sealed; every call of the filesystem pass comes after the seal  *)
(* of every facility of the document.                                      *)
(***************************************************************************)
Stage(e) ==
  CASE e.by = "load_platform" /\ e.op = "add_netzone" -> 0
    [] e.by = "create_storage_system_zone" -> 1
    [] e.by = "create_cluster_zone" -> 2
    [] e.by = "create_inter_zone_links" -> 3
    [] e.by = "create_routes" -> 4
    [] e.by = "load_platform" /\ e.op = "seal" -> 5
    [] OTHER -> 6

Entries(by, f) ==
  Cardinality({i \in DOMAIN log : log[i].op = "enter" /\ log[i].by = by /\ log[i].fac = f})

FacilitySealedBefore(f, j) ==
  \E i \in 1..(j - 1) :
    log[i].op = "seal" /\ log[i].by = "load_platform" /\ log[i].fac = f

C3_BuilderOrder ==
  /\ \A i, j \in DOMAIN log :
       i < j => \/ log[i].fac < log[j].fac
                \/ log[i].fac = log[j].fac /\ Stage(log[i]) <= Stage(log[j])
  /\ \A j \in DOMAIN log :
       log[j].by = "create_filesystems" =>
         \A f \in 1..Len(config.facilities) : FacilitySealedBefore(f, j)
  /\ \A f \in 1..Len(config.facilities) :
       FacilitySealedBefore(f, Len(log) + 1) =>
         LET dc == config.facilities[f]
         IN /\ Entries("create_storage_system_zone", f) =
                 (IF dc.has_storage_systems THEN Len(dc.storage_systems) ELSE 0)
            /\ Entries("create_cluster_zone", f) =
                 (IF dc.has_clusters THEN Len(dc.clusters) ELSE 0)
            /\ Entries("create_inter_zone_links", f) = (IF dc.has_links THEN 1 ELSE 0)
            /\ Entries("create_routes", f) = (IF dc.has_routes THEN 1 ELSE 0)

C3_Witness ==
  /\ pc = "done"
  /\ Len(config.facilities) >= 2
  /\ \E j \in DOMAIN log : log[j].op = "mount_partition"
  /\ Entries("create_storage_system_zone", 1) = 1
  /\ Entries("create_cluster_zone", 1) = 1
  /\ Entries("create_inter_zone_links", 1) = 1
  /\ Entries("create_routes", 1) = 1
  /\ Entries("create_cluster_zone", 2) = 1

(***************************************************************************)
(* C4.  No host, link or route is added to a zone after the zone is        *)
(* sealed: a sealed zone never changes again, and no add_host, add_link or *)
(* add_route call on a zone follows the seal of that zone.  Sealing is     *)
(* bottom-up: when a facility zone is sealed, every zone it contains has   *)
(* been sealed before.                                                     *)
(***************************************************************************)
AddOps == {"add_host", "add_link", "add_route"}

C4_NoAddAfterSeal ==
  \A i, j \in DOMAIN log :
    (i < j /\ log[i].op = "seal" /\ log[j].zone = log[i].zone) => log[j].op \notin AddOps

C4_BottomUp ==
  /\ \A p \in Zones :
       zones[p].sealed => \A c \in Zones : zones[c].parent = p => zones[c].sealed
  /\ \A j \in DOMAIN log :
       (log[j].op = "seal" /\ log[j].by = "load_platform") =>
         \A c \in Zones :
           zones[c].parent = log[j].zone =>
             \E i \in 1..(j - 1) : log[i].op = "seal" /\ log[i].zone = c

C4_SealedZonesStayClosed ==
  /\ [](C4_NoAddAfterSeal /\ C4_BottomUp)
  /\ [][\A z \in Zones : zones[z].sealed => (z \in DOMAIN zones' /\ zones'[z] = zones[z])]_vars

C4_Witness ==
  \E p \in FacilityZones :
    /\ zones[p].sealed
    /\ zones[p].links # <<>> /\ zones[p].routes # <<>>
    /\ \E c \in Zones : zones[c].parent = p /\ zones[c].kind = "empty" /\ zones[c].hosts # <<>>
    /\ \E c \in Zones : zones[c].parent = p /\ zones[c].kind = "star" /\ Len(zones[c].hosts) >= 2

(***************************************************************************)
(* Names the document declares.                                            *)
(***************************************************************************)
SeqNames(cfgs) == {cfgs[k].name : k \in 1..Len(cfgs)}

\* Zone names declared by facilities[1..f], the facility names included.
ZoneNamesUpTo(f) ==
  UNION {{config.facilities[g].name}
         \cup SeqNames(config.facilities[g].storage_systems)
         \cup SeqNames(config.facilities[g].clusters) : g \in 1..f}

LinkNamesUpTo(f) == UNION {SeqNames(config.facilities[g].links) : g \in 1..f}

\* Some route of facility f names a zone or a link declared nowhere before.
RouteNamesUnknown(f) ==
  \E k \in 1..Len(config.facilities[f].routes) :
    LET route_cfg == config.facilities[f].routes[k]
    IN \/ route_cfg.src \notin ZoneNamesUpTo(f)
       \/ route_cfg.dst \notin ZoneNamesUpTo(f)
       \/ \E n \in 1..Len(route_cfg.links) : route_cfg.links[n] \notin LinkNamesUpTo(f)

RoutesBuilt(f) == f < fi \/ (f = fi /\ pc = "seal")

InFacilityLoop ==
  pc \in {"facility", "storage", "clusters", "node", "links", "routes", "seal"}

(***************************************************************************)
(* C5.  A route entry naming a zone or a link that is absent from its      *)
(* registry makes the compile fail with UnknownReference; no route is      *)
(* installed with a null zone or link handle, and the lookups leave no     *)
(* entry behind in the zone and link registries.                           *)
(***************************************************************************)
C5_RoutesRejectUnknownNames ==
  /\ \A f \in 1..Len(config.facilities) :
       (RoutesBuilt(f) /\ RouteNamesUnknown(f)) => failed = "UnknownReference"
  /\ \A z \in FacilityZones : \A k \in 1..Len(zones[z].routes) :
       /\ zones[z].routes[k].src # NullPtr
       /\ zones[z].routes[k].dst # NullPtr
       /\ \A l \in Range(zones[z].routes[k].links) : l # NullPtr
  /\ InFacilityLoop =>
       /\ \A n \in DOMAIN zone_map : zone_map[n] # NullPtr
       /\ \A n \in DOMAIN link_map : link_map[n] # NullPtr

(***************************************************************************)
(* Filesystem entries and the clusters they name.                          *)
(***************************************************************************)
\* The clusters of the document named cluster_name, as <<facility, index>>.
ClustersNamed(cluster_name) ==
  UNION {{<<f, k>> : k \in {j \in 1..Len(config.facilities[f].clusters) :
                              config.facilities[f].clusters[j].name = cluster_name}} :
         f \in 1..Len(config.facilities)}

\* The storage systems of the document named name, as <<facility, index>>.
StorageSystemsNamed(name) ==
  UNION {{<<f, k>> : k \in {j \in 1..Len(config.facilities[f].storage_systems) :
                              config.facilities[f].storage_systems[j].name = name}} :
         f \in 1..Len(config.facilities)}

\* Entry k of the filesystems section has been processed to its end.
FsProcessed(k) == k \in DOMAIN filesystems /\ (k < fsi \/ pc = "done")

\* Every occurrence of pat in s, taken left to right, replaced by rep.
RECURSIVE ReplaceAll(_, _, _)
ReplaceAll(s, pat, rep) ==
  IF s = <<>> THEN <<>>
  ELSE IF MatchAt(s, pat, 0)
       THEN rep \o ReplaceAll(SubSeq(s, Len(pat) + 1, Len(s)), pat, rep)
       ELSE <<s[1]>> \o ReplaceAll(SubSeq(s, 2, Len(s)), pat, rep)

(***************************************************************************)
(* C6.  A cluster-mode filesystem on a cluster with count = N has, once    *)
(* its entry is processed, exactly N partitions, the i-th at the mount     *)
(* point obtained by replacing every occurrence of {hostname} in the       *)
(* template by prefix + i + suffix and on the storage registered as        *)
(* <hostname>_<node storage name>, and is registered exactly once, against *)
(* the cluster's zone; it is registered nowhere while partitions are still *)
(* being mounted.                                                          *)
(***************************************************************************)
C6_ClusterModeMounts ==
  \A k \in DOMAIN filesystems :
    LET fs_cfg == config.filesystems[k]
        fs == filesystems[k]
    IN (~fs_cfg.has_storage_system /\ fs_cfg.has_cluster
        /\ ClustersNamed(fs_cfg.cluster) # {}) =>
         LET fk == CHOOSE x \in ClustersNamed(fs_cfg.cluster) : TRUE
             spec == config.facilities[fk[1]].clusters[fk[2]]
             N == spec.count
             hostname(i) == spec.prefix \o to_string(i) \o spec.suffix
         IN /\ ~FsProcessed(k) => fs.registered = <<>>
            /\ FsProcessed(k) =>
                 /\ Len(fs.partitions) = N
                 /\ \A i \in 1..N :
                      /\ fs.partitions[i].mount_point =
                           ReplaceAll(fs_cfg.mount_point, Placeholder, hostname(i - 1))
                      /\ (spec.has_storage /\ spec.storage.type \in {"OneDisk", "JBOD"}) =>
                           /\ fs.partitions[i].storage # NullPtr
                           /\ storages[fs.partitions[i].storage].name =
                                hostname(i - 1) \o Underscore \o spec.storage.name
                 /\ Len(fs.registered) = 1
                 /\ fs.registered[1] # NullPtr
                 /\ zones[fs.registered[1]].name = spec.name
                 /\ zones[fs.registered[1]].kind = "star"

(***************************************************************************)
(* C7.  A filesystem entry with a storage_system key, with or without a    *)
(* cluster key, yields exactly one partition, at the literal mount_point   *)
(* text, on the storage registered as <storage_system>_storage, and one    *)
(* registration, against the zone of that storage system.                  *)
(***************************************************************************)
C7_SingleStorageMount ==
  \A k \in DOMAIN filesystems :
    LET fs_cfg == config.filesystems[k]
        fs == filesystems[k]
        name == fs_cfg.storage_system
        storage_name == name \o SufStorage
        declared == StorageSystemsNamed(name)
    IN fs_cfg.has_storage_system =>
         /\ Len(fs.partitions) = 1
         /\ fs.partitions[1].mount_point = fs_cfg.mount_point
         /\ storage_name \in DOMAIN storage_map
         /\ fs.partitions[1].storage = storage_map[storage_name]
         /\ Len(fs.registered) = 1
         /\ name \in DOMAIN zone_map
         /\ fs.registered[1] = zone_map[name]
         /\ \A x \in declared :
              LET ss == config.facilities[x[1]].storage_systems[x[2]]
                  zone == fs.registered[1]
              IN /\ zone # NullPtr
                 /\ zones[zone].name = name
                 /\ zones[zone].kind = "empty"
                 /\ \E h \in HostsIn(zone) : hosts[h].name = name \o SufServer
                 /\ ss.type \in {"JBOD", "OneDisk"} =>
                      /\ fs.partitions[1].storage # NullPtr
                      /\ storages[fs.partitions[1].storage].name = storage_name

C7_Witness ==
  \E k \in DOMAIN filesystems :
    /\ config.filesystems[k].has_storage_system
    /\ config.filesystems[k].has_cluster
    /\ Find(config.filesystems[k].mount_point, Placeholder) # Npos
    /\ ClustersNamed(config.filesystems[k].cluster) # {}
    /\ Len(filesystems[k].partitions) = 1
    /\ filesystems[k].partitions[1].storage # NullPtr
    /\ filesystems[k].registered # <<>>

(***************************************************************************)
(* C8.  A cluster-mode filesystem whose cluster name matches no cluster of *)
(* the document makes the compile fail with UnknownCluster: the filesystem *)
(* is registered against no zone and the zone registry holds no null entry *)
(* for the name.                                                           *)
(***************************************************************************)
C8_UnknownClusterRejected ==
  \A k \in DOMAIN filesystems :
    LET fs_cfg == config.filesystems[k]
    IN (~fs_cfg.has_storage_system /\ fs_cfg.has_cluster
        /\ ClustersNamed(fs_cfg.cluster) = {} /\ FsProcessed(k)) =>
         /\ failed = "UnknownCluster"
         /\ filesystems[k].registered = <<>>
         /\ fs_cfg.cluster \in DOMAIN zone_map => zone_map[fs_cfg.cluster] # NullPtr

(***************************************************************************)
(* C9.  A cluster-mode filesystem is never mounted on a per-node storage   *)
(* name that the storage registry does not hold: no partition has a null   *)
(* storage handle, the lookups leave no null entry in the storage registry *)
(* and, when the cluster creates no node storage (no storage template      *)
(* among the cases), the compile has failed with UnknownStorage.           *)
(***************************************************************************)
C9_UnknownStorageRejected ==
  \A k \in DOMAIN filesystems :
    LET fs_cfg == config.filesystems[k]
        fs == filesystems[k]
    IN (~fs_cfg.has_storage_system /\ fs_cfg.has_cluster) =>
         \A fk \in ClustersNamed(fs_cfg.cluster) :
           LET spec == config.facilities[fk[1]].clusters[fk[2]]
               base == IF spec.has_storage THEN spec.storage.name ELSE <<>>
               storage_name(i) ==
                 spec.prefix \o to_string(i) \o spec.suffix \o Underscore \o base
               created == spec.has_storage /\ spec.storage.type \in {"OneDisk", "JBOD"}
           IN /\ \A i \in 1..Len(fs.partitions) : fs.partitions[i].storage # NullPtr
              /\ \A i \in 0..(spec.count - 1) :
                   storage_name(i) \in DOMAIN storage_map =>
                     storage_map[storage_name(i)] # NullPtr
              /\ (FsProcessed(k) /\ spec.count > 0 /\ ~created) =>
                   failed = "UnknownStorage"

(***************************************************************************)
(* C10.  A facility zone has routing floyd exactly when the document       *)
(* declares routing "floyd"; for every other declaration, and for no       *)
(* declaration at all, the zone has routing full and the compile does not  *)
(* fail.                                                                   *)
(***************************************************************************)
C10_RoutingDefault ==
  /\ failed = "none"
  /\ \A z \in FacilityZones :
       LET dc == config.facilities[FacilityIndexOf(z)]
       IN zones[z].kind = (IF dc.has_routing /\ dc.routing = "floyd" THEN "floyd" ELSE "full")


(***************************************************************************)
(* C11: registry entries are written once.                                 *)
(***************************************************************************)

\* C11: every name is registered at most once in each registry: once a
\* builder has registered a handle under a name, no later step of the compile
\* pass removes the entry or makes the name resolve to another handle, also
\* when two declarations of the document lead to the same name.
C11_RegisteredOnce ==
  [][/\ \A n \in DOMAIN zone_map :
          zone_map[n] # NullPtr =>
            n \in DOMAIN zone_map' /\ zone_map'[n] = zone_map[n]
     /\ \A n \in DOMAIN link_map :
          link_map[n] # NullPtr =>
            n \in DOMAIN link_map' /\ link_map'[n] = link_map[n]
     /\ \A n \in DOMAIN storage_map :
          storage_map[n] # NullPtr =>
            n \in DOMAIN storage_map' /\ storage_map'[n] = storage_map[n]]_vars


(***************************************************************************)
(* C12: the shape of the storage devices.                                  *)
(***************************************************************************)

\* C12: every storage device the compiler registers is of type OneDisk with
\* exactly one underlying disk, or of type JBOD with at least one underlying
\* disk, whatever the disk_count of a storage system and whatever the node
\* storage template of a cluster.
C12_StorageShapes ==
  \A s \in 1..Len(storages) :
     \/ storages[s].type = "OneDisk" /\ Len(storages[s].disks) = 1
     \/ storages[s].type = "JBOD" /\ Len(storages[s].disks) >= 1


(***************************************************************************)
(* C13: the registry key of a storage system's device.                     *)
(***************************************************************************)

\* Storage system i of facility f has been built.
StorageSystemBuilt(f, i) ==
  \/ f < fi
  \/ f = fi /\ pc \notin {"facility", "failed"} /\ i < si

\* The storage systems built so far, as <<facility, index>>.
StorageSystemsBuilt ==
  UNION {{<<f, i>> : i \in {j \in 1..Len(config.facilities[f].storage_systems) :
                              StorageSystemBuilt(f, j)}} :
         f \in 1..Len(config.facilities)}

OtherStorageType(storage_type) == IF storage_type = "JBOD" THEN "OneDisk" ELSE "JBOD"

\* C13 as stated: the storage registry key depends on the storage type: a
\* storage system named X that is a JBOD with disk_count = 1 and a storage
\* system named X that is a OneDisk are registered under different keys, so
\* that a lookup with the key of the one never yields a device of the other.
C13_KeyDependsOnType ==
  \A b \in StorageSystemsBuilt :
     LET cfg == config.facilities[b[1]].storage_systems[b[2]]
         key == StorageSystemKey(cfg.name, cfg.type)
         other_key == StorageSystemKey(cfg.name, OtherStorageType(cfg.type))
     IN (cfg.type = "OneDisk" \/ (cfg.type = "JBOD" /\ cfg.disk_count = 1)) =>
          /\ key # other_key
          /\ (other_key \in DOMAIN storage_map /\ storage_map[other_key] # NullPtr) =>
                storages[storage_map[other_key]].type # cfg.type

\* C13, amended: the storage registry key of a storage system's device is
\* <name>_storage whatever the storage type: when the builder has run for a
\* storage system named X of type JBOD or OneDisk, X_storage resolves to the
\* device just created, which has the declared type, and for a OneDisk as for
\* a JBOD with disk_count = 1 it aggregates the single disk X_disk.
C13_KeyIgnoresType ==
  [][(pc = "storage" /\ si' = si + 1) =>
       LET cfg == config.facilities[fi].storage_systems[si]
           key == cfg.name \o SufStorage
       IN cfg.type \in {"JBOD", "OneDisk"} =>
            /\ key \in DOMAIN storage_map'
            /\ storage_map'[key] = Len(storages')
            /\ Len(storages') = Len(storages) + 1
            /\ storages'[Len(storages')].type = cfg.type
            /\ (cfg.type = "OneDisk" \/ cfg.disk_count = 1) =>
                  storages'[Len(storages')].disks = <<cfg.name \o SufDisk>>]_vars

\* A JBOD storage system with disk_count = 1 has been built: its device is
\* registered under <name>_storage and aggregates the disk <name>_disk.
C13_Witness ==
  \E b \in StorageSystemsBuilt :
     LET cfg == config.facilities[b[1]].storage_systems[b[2]]
         key == cfg.name \o SufStorage
     IN /\ cfg.type = "JBOD" /\ cfg.disk_count = 1
        /\ key \in DOMAIN storage_map /\ storage_map[key] # NullPtr
        /\ storages[storage_map[key]].type = "JBOD"
        /\ storages[storage_map[key]].disks = <<cfg.name \o SufDisk>>


(***************************************************************************)
(* C14: a storage system of an unsupported type.                           *)
(***************************************************************************)

\* C14: for a storage-system specification whose type is neither OneDisk nor
\* JBOD the builder still creates the zone and its server host, registers
\* the zone under the name and seals it, but creates no disk and no storage
\* device and adds no entry to the storage registry; the compile pass goes
\* on with the next builder step without failing.
C14_UnsupportedTypeIsNoOp ==
  [][(pc = "storage" /\ si' = si + 1) =>
       LET cfg == config.facilities[fi].storage_systems[si]
           zone == Len(zones) + 1
           server == Len(hosts) + 1
           calls == SubSeq(log', Len(log) + 1, Len(log'))
       IN cfg.type \notin {"JBOD", "OneDisk"} =>
            /\ Len(zones') = zone /\ Len(hosts') = server
            /\ zones'[zone].name = cfg.name
            /\ zones'[zone].parent = datacenter
            /\ zones'[zone].hosts = <<server>>
            /\ zones'[zone].sealed
            /\ cfg.name \in DOMAIN zone_map' /\ zone_map'[cfg.name] = zone
            /\ hosts'[server].name = cfg.name \o SufServer
            /\ hosts'[server].zone = zone
            /\ hosts'[server].disks = <<>>
            /\ \A k \in 1..Len(calls) : calls[k].op \notin {"add_disk", "create_storage"}
            /\ storages' = storages
            /\ storage_map' = storage_map
            /\ pc' = "storage" /\ failed' = "none"]_vars

\* A storage system of type "Tape" has been built and the compile pass has
\* run to its end: the zone is registered and sealed, the storage registry
\* has no entry for it.
C14_Witness ==
  /\ pc = "done"
  /\ \E b \in StorageSystemsBuilt :
       LET cfg == config.facilities[b[1]].storage_systems[b[2]]
       IN /\ cfg.type = "Tape"
          /\ cfg.name \in DOMAIN zone_map /\ zone_map[cfg.name] # NullPtr
          /\ zones[zone_map[cfg.name]].sealed
          /\ (cfg.name \o SufStorage) \notin DOMAIN storage_map


(***************************************************************************)
(* C15: the lifetime of the registries.                                    *)
(***************************************************************************)

\* C15: the name registries are scoped to one compile pass: when
\* load_platform has returned, the zone, link and storage registries hold no
\* entry, so that a later compile in the same process starts from empty
\* registries and can resolve no name of an earlier document.
C15_RegistriesScopedToPass ==
  pc = "done" =>
    /\ DOMAIN zone_map = {}
    /\ DOMAIN link_map = {}
    /\ DOMAIN storage_map = {}


(***************************************************************************)
(* C17: the substitution loop.                                             *)
(***************************************************************************)

\* C17: the {hostname} substitution loop of cluster-mode mounting comes to an
\* end for every mount-point template and every synthesized hostname, also
\* when the hostname itself contains the text {hostname}: the loop never
\* keeps growing the mount point until the string can hold no more, which
\* ends the compile pass before the filesystem is registered.
C17_SubstitutionTerminates == failed # "bad_alloc"

====
